---- MODULE Spec2Model ----
(***************************************************************************)
(* The two provisioning scripts of cto-dashboard, setup-database.py and    *)
(* setup-with-ipv6.py, run one after the other against one PostgreSQL      *)
(* database.  A run is a linear script; every step that talks to the       *)
(* network, the file system or the database either succeeds or raises, and *)
(* the outcome is chosen by the environment.                               *)
(*                                                                         *)
(* The database is a record [tables, users, audit]: whether the schema's   *)
(* tables exist, the set of user rows and the sequence of audit_log rows.  *)
(* committed is what the server holds durably, txn is what the open        *)
(* connection's transaction sees.                                          *)
(***************************************************************************)
EXTENDS Integers, Sequences, FiniteSets, TLC

VARIABLES
    script,      \* which script the current run executes: "none", "db", "ipv6"
    pc,          \* position of the run in main()
    committed,   \* durable database state
    txn,         \* database state seen by the open transaction
    openConns,   \* number of open database connections of the process
    conn,        \* main()'s conn: None or the number of the configuration used
    attempt,     \* the fallback loop's i (setup-with-ipv6.py)
    existing,    \* main()'s existing: None or the id fetched by the lookup
    user_id,     \* main()'s user_id
    nextId,      \* next value of the users.id generator (never rolled back)
    runs,        \* number of runs started; also the value of NOW()
    exitStatus,  \* exit status of the last finished run, -1 while running
    log,         \* history of the current run: the steps taken and their outcome
    startDb,     \* history: committed when the current run started
    lastCommit,  \* history: the state made durable by the run's last commit
    okRuns,      \* history: the runs of setup-database.py that exited 0
    initDb       \* history: the database before the first run

vars == <<script, pc, committed, txn, openConns, conn, attempt, existing,
          user_id, nextId, runs, exitStatus, log, startDb, lastCommit,
          okRuns, initDb>>

-----------------------------------------------------------------------------
(* Bounds *)

MaxRuns == 3

-----------------------------------------------------------------------------
(* Configuration of the scripts *)

ADMIN_EMAIL == "jonathan.mitchell.anderson@gmail.com"
ADMIN_PASSWORD == "J0n8th8n"
ADMIN_NAME == "Jonathan Anderson"
ADMIN_ROLE == "cto"
JWT_SECRET == "9eIYkI29Ui51haY7VtGuXFKg2y+gFWpwruK4y85gBHk="

CONNECTION_ATTEMPTS ==
    << [host |-> "db.iithtbuedvwmtbagquxy.supabase.co", port |-> 5432],
       [host |-> "2600:1f16:1cd0:3300:b302:cf8b:1d42:4843", port |-> 5432],
       [host |-> "db.iithtbuedvwmtbagquxy.supabase.co", port |-> 6543] >>

None == 0

hash_password(password) == <<"sha256", password, JWT_SECRET>>

-----------------------------------------------------------------------------
(* The database *)

OtherUser ==
    [id |-> 1, email |-> "someone@example.com", name |-> "Someone",
     role |-> "viewer", created_at |-> 0, updated_at |-> 0]

OldAdmin ==
    [id |-> 2, email |-> ADMIN_EMAIL, name |-> "J. Anderson",
     role |-> "viewer", created_at |-> 0, updated_at |-> 0]

OtherAudit ==
    [user_id |-> 1, action |-> "login", entity_type |-> "user",
     entity_id |-> 1, details |-> <<>>, created_at |-> 0]

EmptyDb == [tables |-> FALSE, users |-> {}, audit |-> <<>>]

InitialDbs ==
    {EmptyDb} \cup
    { [tables |-> TRUE, users |-> u, audit |-> a] :
        u \in SUBSET {OtherUser, OldAdmin}, a \in {<<>>, <<OtherAudit>>} }

RowsByEmail(db, email) == {u \in db.users : u.email = email}

\* cursor.execute(<contents of the SQL file>): the script's statements create
\* the tables; rows are left as they are.
ExecuteScript(db) == [db EXCEPT !.tables = TRUE]

\* SELECT id, email FROM users WHERE email = %s; fetchone()
SelectUser(db, email) ==
    IF RowsByEmail(db, email) = {} THEN {None}
    ELSE {u.id : u \in RowsByEmail(db, email)}

\* UPDATE users SET name, role, updated_at = NOW() WHERE email = %s
UpdateUser(db, email, name, role, now) ==
    [db EXCEPT !.users =
        {IF u.email = email
            THEN [u EXCEPT !.name = name, !.role = role, !.updated_at = now]
            ELSE u : u \in db.users}]

\* INSERT INTO users (email, name, role, created_at, updated_at) ... RETURNING id
InsertUser(db, id, email, name, role, now) ==
    [db EXCEPT !.users = db.users \cup
        {[id |-> id, email |-> email, name |-> name, role |-> role,
          created_at |-> now, updated_at |-> now]}]

\* INSERT INTO audit_log (user_id, action, entity_type, entity_id, details, created_at)
InsertAudit(db, uid, now) ==
    [db EXCEPT !.audit = Append(db.audit,
        [user_id |-> uid, action |-> "password_created", entity_type |-> "user",
         entity_id |-> uid,
         details |-> [email |-> ADMIN_EMAIL,
                      password_hash |-> hash_password(ADMIN_PASSWORD)],
         created_at |-> now])]

\* Variant: a reporter statement that touches the admin row.
QueryWrites(db) == UpdateUser(db, ADMIN_EMAIL, "", ADMIN_ROLE, runs)

\* A SELECT of the reporter leaves the transaction's view as it is.
Query(db) == db

\* Variant: conn.autocommit = True, every statement is durable at once.
AutocommitOn(durable, view) == view

\* conn.autocommit = False (psycopg2's default too): a statement that wrote
\* changes only the transaction's view; the durable state waits for commit().
DurableAfterWrite(durable, view) == durable

\* A statement on users or audit_log can only succeed when the tables exist.
CanSucceed(db) == db.tables

-----------------------------------------------------------------------------
(* Control flow: the order of the steps of each main() *)

DbOrder ==
    <<"connect", "read_file", "exec_file", "commit_file", "list_tables",
      "select_user", "upsert", "insert_audit", "commit_admin", "verify_admin",
      "statistics", "close">>

Ipv6Order ==
    <<"connect_loop", "check_conn", "read_file", "exec_file", "commit_file",
      "list_tables", "verify_admin", "close">>

Order(s) == IF s = "db" THEN DbOrder ELSE Ipv6Order

After(order, p) ==
    LET k == CHOOSE j \in 1..Len(order) : order[j] = p
    IN  IF k = Len(order) THEN "exited" ELSE order[k + 1]

Swapped(order, a, b) ==
    [k \in DOMAIN order |->
        IF order[k] = a THEN b ELSE IF order[k] = b THEN a ELSE order[k]]

\* Variants of the order: commit() before execute(); the sql file read before
\* the check of conn; the sql file read after the first query.
SuccCommitFirst(s, p) == After(Swapped(Order(s), "exec_file", "commit_file"), p)
SuccCheckLate(s, p) == After(Swapped(Order(s), "check_conn", "read_file"), p)
SuccReadLate(s, p) == After(Swapped(Order(s), "read_file", "list_tables"), p)

\* The step that follows step p of script s when p succeeded.
Succ(s, p) == After(Order(s), p)

\* Variant: the loop without its break.
LoopEndsNoBreak(c, i) == i = Len(CONNECTION_ATTEMPTS)

\* for ...: conn = try_connection(config); if conn: break
LoopEnds(c, i) == c # None \/ i = Len(CONNECTION_ATTEMPTS)

\* Variant: the check of conn left out.
NoConnectionUnchecked(c) == FALSE

\* if not conn: ... sys.exit(1)
NoConnection(c) == c = None

\* Variant: the lookup's result ignored, every run inserts.
FoundNever(e) == FALSE

\* if existing: ... else: ...
Found(e) == e # None

\* Variant: the id of the generator used on both branches.
AuditUserIdGenerated(e, generated) == generated

\* user_id = existing[0]  /  user_id = cursor.fetchone()[0]
AuditUserId(e, generated) == IF Found(e) THEN e ELSE generated

Entry(ok, cfg) == [step |-> pc, ok |-> ok, cfg |-> cfg]

\* Variant: the handlers end the process with status 0.
RaiseExitZero ==
    /\ pc' = "exited"
    /\ exitStatus' = 0
    /\ openConns' = 0
    /\ conn' = None
    /\ txn' = committed
    /\ log' = Append(log, Entry(FALSE, 0))
    /\ UNCHANGED <<script, committed, attempt, existing, user_id, nextId, runs,
                   startDb, lastCommit, okRuns, initDb>>

\* An exception reaches a handler of main(), which exits with status 1; the
\* process ends, its connection is dropped and the server rolls back what
\* was not committed.
Raise ==
    /\ pc' = "exited"
    /\ exitStatus' = 1
    /\ openConns' = 0
    /\ conn' = None
    /\ txn' = committed
    /\ log' = Append(log, Entry(FALSE, 0))
    /\ UNCHANGED <<script, committed, attempt, existing, user_id, nextId, runs,
                   startDb, lastCommit, okRuns, initDb>>

\* A statement succeeded and left the transaction's view as view.
Proceed(view, wrote) ==
    /\ pc' = Succ(script, pc)
    /\ txn' = view
    /\ committed' = IF wrote THEN DurableAfterWrite(committed, view) ELSE committed
    /\ log' = Append(log, Entry(TRUE, 0))
    /\ UNCHANGED <<script, openConns, conn, attempt, runs, exitStatus,
                   startDb, lastCommit, okRuns, initDb>>

-----------------------------------------------------------------------------
(* Steps shared by the two scripts *)

\* Variant: a missing sql file is passed over and the run goes on.
ReadFileLenient ==
    /\ pc = "read_file"
    /\ \E present \in BOOLEAN :
         /\ pc' = Succ(script, pc)
         /\ log' = Append(log, Entry(present, 0))
    /\ UNCHANGED <<script, committed, txn, openConns, conn, attempt, existing,
                   user_id, nextId, runs, exitStatus, startDb, lastCommit,
                   okRuns, initDb>>

\* with open(<sql file>, 'r') as f: sql = f.read()
ReadFile ==
    /\ pc = "read_file"
    /\ \E present \in BOOLEAN :
         IF present
            THEN Proceed(txn, FALSE) /\ UNCHANGED <<existing, user_id, nextId>>
            ELSE Raise

\* cursor.execute(<contents of the sql file>)
ExecFile ==
    /\ pc = "exec_file"
    /\ \E ok \in BOOLEAN :
         IF ok
            THEN Proceed(ExecuteScript(txn), TRUE)
                 /\ UNCHANGED <<existing, user_id, nextId>>
            ELSE Raise

\* conn.commit()
Commit(at) ==
    /\ pc = at
    /\ \E ok \in BOOLEAN :
         IF ok
            THEN /\ pc' = Succ(script, pc)
                 /\ committed' = txn
                 /\ lastCommit' = txn
                 /\ log' = Append(log, Entry(TRUE, 0))
                 /\ UNCHANGED <<script, txn, openConns, conn, attempt, existing,
                                user_id, nextId, runs, exitStatus, startDb,
                                okRuns, initDb>>
            ELSE Raise

\* cursor.execute(<SELECT ...>); cursor.fetchall() / fetchone(); print
Report(at) ==
    /\ pc = at
    /\ \E ok \in BOOLEAN :
         IF ok /\ CanSucceed(txn)
            THEN Proceed(Query(txn), FALSE)
                 /\ UNCHANGED <<existing, user_id, nextId>>
            ELSE Raise

\* cursor.close(); conn.close(); main() returns and the process exits 0
Close ==
    /\ pc = "close"
    /\ pc' = Succ(script, pc)
    /\ exitStatus' = 0
    /\ openConns' = openConns - 1
    /\ conn' = None
    /\ txn' = committed
    /\ log' = Append(log, Entry(TRUE, 0))
    /\ okRuns' = IF script = "db" THEN okRuns \cup {runs} ELSE okRuns
    /\ UNCHANGED <<script, committed, attempt, existing, user_id, nextId, runs,
                   startDb, lastCommit, initDb>>

-----------------------------------------------------------------------------
(* setup-database.py *)

\* conn = psycopg2.connect(DATABASE_URL, ...); conn.autocommit = False;
\* cursor = conn.cursor()
DbConnect ==
    /\ script = "db" /\ pc = "connect"
    /\ \E ok \in BOOLEAN :
         IF ok
            THEN /\ pc' = Succ(script, pc)
                 /\ conn' = 1
                 /\ openConns' = openConns + 1
                 /\ log' = Append(log, Entry(TRUE, 1))
                 /\ UNCHANGED <<script, committed, txn, attempt, existing,
                                user_id, nextId, runs, exitStatus, startDb,
                                lastCommit, okRuns, initDb>>
            ELSE Raise

DbReadSchema == script = "db" /\ ReadFile

DbExecSchema == script = "db" /\ ExecFile

DbCommitSchema == script = "db" /\ Commit("commit_file")

DbListTables == script = "db" /\ Report("list_tables")

\* cursor.execute("SELECT id, email FROM users WHERE email = %s");
\* existing = cursor.fetchone()
DbSelectUser ==
    /\ script = "db" /\ pc = "select_user"
    /\ \E ok \in BOOLEAN :
         IF ok /\ CanSucceed(txn)
            THEN /\ \E e \in SelectUser(txn, ADMIN_EMAIL) : existing' = e
                 /\ Proceed(txn, FALSE)
                 /\ UNCHANGED <<user_id, nextId>>
            ELSE Raise

\* if existing: UPDATE users ...; user_id = existing[0]
DbUpdateUser ==
    /\ script = "db" /\ pc = "upsert" /\ Found(existing)
    /\ \E ok \in BOOLEAN :
         IF ok /\ CanSucceed(txn)
            THEN /\ Proceed(UpdateUser(txn, ADMIN_EMAIL, ADMIN_NAME, ADMIN_ROLE, runs),
                            TRUE)
                 /\ user_id' = AuditUserId(existing, nextId)
                 /\ UNCHANGED <<existing, nextId>>
            ELSE Raise

\* else: INSERT INTO users ... RETURNING id; user_id = cursor.fetchone()[0]
DbInsertUser ==
    /\ script = "db" /\ pc = "upsert" /\ ~Found(existing)
    /\ \E ok \in BOOLEAN :
         IF ok /\ CanSucceed(txn)
            THEN /\ Proceed(InsertUser(txn, nextId, ADMIN_EMAIL, ADMIN_NAME,
                                       ADMIN_ROLE, runs), TRUE)
                 /\ user_id' = AuditUserId(existing, nextId)
                 /\ nextId' = nextId + 1
                 /\ UNCHANGED existing
            ELSE Raise

\* password_hash = hash_password(ADMIN_PASSWORD); cursor.execute(INSERT INTO audit_log)
DbInsertAudit ==
    /\ script = "db" /\ pc = "insert_audit"
    /\ \E ok \in BOOLEAN :
         IF ok /\ CanSucceed(txn)
            THEN /\ Proceed(InsertAudit(txn, user_id, runs), TRUE)
                 /\ UNCHANGED <<existing, user_id, nextId>>
            ELSE Raise

DbCommitAdmin == script = "db" /\ Commit("commit_admin")

DbVerifyAdmin == script = "db" /\ Report("verify_admin")

DbStatistics == script = "db" /\ Report("statistics")

DbClose == script = "db" /\ Close

-----------------------------------------------------------------------------
(* setup-with-ipv6.py *)

\* One iteration of the fallback loop: conn = try_connection(config);
\* try_connection returns the connection, or None when connect raised.
IpTryConnection ==
    /\ script = "ipv6" /\ pc = "connect_loop"
    /\ \E ok \in BOOLEAN :
         LET c == IF ok THEN attempt ELSE None
         IN  /\ conn' = c
             /\ openConns' = IF ok THEN openConns + 1 ELSE openConns
             /\ log' = Append(log, Entry(ok, attempt))
             /\ IF LoopEnds(c, attempt)
                   THEN pc' = Succ(script, pc) /\ attempt' = attempt
                   ELSE pc' = pc /\ attempt' = attempt + 1
    /\ UNCHANGED <<script, committed, txn, existing, user_id, nextId, runs,
                   exitStatus, startDb, lastCommit, okRuns, initDb>>

\* if not conn: ... sys.exit(1); otherwise cursor = conn.cursor()
IpCheckConn ==
    /\ script = "ipv6" /\ pc = "check_conn"
    /\ IF NoConnection(conn)
          THEN Raise
          ELSE Proceed(txn, FALSE) /\ UNCHANGED <<existing, user_id, nextId>>

IpReadSql == script = "ipv6" /\ ReadFile

IpExecSql == script = "ipv6" /\ ExecFile

IpCommit == script = "ipv6" /\ Commit("commit_file")

IpListTables == script = "ipv6" /\ Report("list_tables")

IpVerifyUser == script = "ipv6" /\ Report("verify_admin")

IpClose == script = "ipv6" /\ Close

-----------------------------------------------------------------------------
(* Runs *)

\* The operator starts one of the scripts; the new process has no connection.
StartRun ==
    /\ pc \in {"idle", "exited"}
    /\ runs < MaxRuns
    /\ \E s \in {"db", "ipv6"} :
         /\ script' = s
         /\ pc' = Order(s)[1]
    /\ runs' = runs + 1
    /\ exitStatus' = -1
    /\ openConns' = 0
    /\ conn' = None
    /\ attempt' = 1
    /\ existing' = None
    /\ user_id' = None
    /\ txn' = committed
    /\ log' = <<>>
    /\ startDb' = committed
    /\ lastCommit' = committed
    /\ UNCHANGED <<committed, nextId, okRuns, initDb>>

Init ==
    /\ script = "none"
    /\ pc = "idle"
    /\ committed \in InitialDbs
    /\ txn = committed
    /\ openConns = 0
    /\ conn = None
    /\ attempt = 1
    /\ existing = None
    /\ user_id = None
    /\ nextId = 3
    /\ runs = 0
    /\ exitStatus = -1
    /\ log = <<>>
    /\ startDb = committed
    /\ lastCommit = committed
    /\ okRuns = {}
    /\ initDb = committed

RunStep ==
    \/ DbConnect \/ DbReadSchema \/ DbExecSchema \/ DbCommitSchema
    \/ DbListTables \/ DbSelectUser \/ DbUpdateUser \/ DbInsertUser
    \/ DbInsertAudit \/ DbCommitAdmin \/ DbVerifyAdmin \/ DbStatistics
    \/ DbClose
    \/ IpTryConnection \/ IpCheckConn \/ IpReadSql \/ IpExecSql \/ IpCommit
    \/ IpListTables \/ IpVerifyUser \/ IpClose

Next == StartRun \/ RunStep

Spec == Init /\ [][Next]_vars

-----------------------------------------------------------------------------
(* Vocabulary of the properties *)

StatementSteps ==
    {"exec_file", "list_tables", "select_user", "upsert", "insert_audit",
     "verify_admin", "statistics"}

CommitSteps == {"commit_file", "commit_admin"}

ReporterSteps == {"list_tables", "verify_admin", "statistics"}

ConnectSteps == {"connect", "connect_loop"}

\* A step taken at a reporter statement changes neither the durable state nor
\* the transaction's view (the end of the process discards the view).
ReporterStepReadOnly ==
    pc \in ReporterSteps =>
       /\ committed' = committed
       /\ txn' = txn \/ (pc' = "exited" /\ txn' = committed)

Running == pc \notin {"idle", "exited"}

\* Positions of the log where a step of the given kind was taken.
Taken(steps) == {k \in DOMAIN log : log[k].step \in steps}

Succeeded(steps) == {k \in Taken(steps) : log[k].ok}

Failed(steps) == {k \in Taken(steps) : ~log[k].ok}

\* The connection attempts of the run, in the order they were made.
Tried == SelectSeq(log, LAMBDA e : e.step \in ConnectSteps)

AllAttemptsFailed ==
    /\ Tried # <<>>
    /\ \A k \in DOMAIN Tried : ~Tried[k].ok
    /\ script = "ipv6" => Len(Tried) = Len(CONNECTION_ATTEMPTS)

\* Errors of the run: an exception that reached main(), or the connector
\* ending without a connection (a failed attempt that the fallback loop
\* absorbs is not one).
Errors == {k \in DOMAIN log : ~log[k].ok /\ log[k].step # "connect_loop"}

AdminRows(db) == RowsByEmail(db, ADMIN_EMAIL)

\* Positions of the audit rows the script wrote.
ScriptAudit(db) == {k \in DOMAIN db.audit : db.audit[k].action = "password_created"}

\* Ids of the user rows that differ between two database states.
ChangedIds(a, b) == {u.id : u \in (a.users \ b.users) \cup (b.users \ a.users)}

-----------------------------------------------------------------------------
(* Properties *)

\* C1: the admin upsert is idempotent and the audit log grows by one row per
\* run.  From a database with no row for the admin email, after n >= 1
\* successful runs of setup-database.py there is exactly one user row with
\* the admin email and exactly n audit rows written by these runs; a
\* successful run changes at most one user row and adds exactly one audit row.
C1_IdempotentUpsert ==
    /\ (AdminRows(initDb) = {} /\ okRuns # {}) =>
          /\ Cardinality(AdminRows(committed)) = 1
          /\ Cardinality({k \in ScriptAudit(committed) :
                            committed.audit[k].created_at \in okRuns})
               = Cardinality(okRuns)
    /\ (script = "db" /\ pc = "exited" /\ exitStatus = 0) =>
          /\ Len(committed.audit) = Len(startDb.audit) + 1
          /\ Cardinality(ChangedIds(startDb, committed)) <= 1
          /\ Cardinality(committed.users) <= Cardinality(startDb.users) + 1

\* Two successful runs from a database without the admin row.
C1_Witness ==
    /\ AdminRows(initDb) = {}
    /\ Cardinality(okRuns) = 2
    /\ script = "db" /\ pc = "exited" /\ exitStatus = 0
    /\ Cardinality(AdminRows(committed)) = 1
    /\ Cardinality(ScriptAudit(committed)) = 2

\* C2: the connector of setup-with-ipv6.py tries the configurations in list
\* order and stops at the first success: configuration k is tried only after
\* 1..k-1 were each tried once and failed, nothing is tried after a success
\* or twice, and the connection used afterwards is the first that succeeded.
C2_OrderedFallback ==
    script = "ipv6" =>
       /\ Len(Tried) <= Len(CONNECTION_ATTEMPTS)
       /\ \A k \in DOMAIN Tried :
             /\ Tried[k].cfg = k
             /\ k < Len(Tried) => ~Tried[k].ok
       /\ pc = "connect_loop" =>
             /\ \A k \in DOMAIN Tried : ~Tried[k].ok
             /\ attempt = Len(Tried) + 1
             /\ conn = None
       /\ pc # "connect_loop" =>
             /\ Tried # <<>>
             /\ ~Tried[Len(Tried)].ok => Len(Tried) = Len(CONNECTION_ATTEMPTS)
       /\ (Running /\ pc \notin {"connect_loop", "check_conn"}) =>
             /\ Tried[Len(Tried)].ok
             /\ conn = Tried[Len(Tried)].cfg
       /\ (pc = "check_conn" /\ Tried[Len(Tried)].ok) => conn = Tried[Len(Tried)].cfg

\* The first configuration failed, the second succeeded and is in use.
C2_Witness ==
    /\ script = "ipv6" /\ pc = "exec_file"
    /\ Len(Tried) = 2 /\ ~Tried[1].ok /\ Tried[2].ok
    /\ conn = 2

\* C3: if every connection attempt fails, the run executes no SQL statement
\* and opens no file, the database stays as it was, and the process exits
\* with status 1.
C3_NoConnectionNoEffect ==
    AllAttemptsFailed =>
       /\ pc \in {"check_conn", "exited"}
       /\ pc = "exited" => exitStatus = 1
       /\ Taken(StatementSteps \cup CommitSteps \cup {"read_file"}) = {}
       /\ committed = startDb
       /\ txn = startDb
       /\ openConns = 0

\* All three configurations of setup-with-ipv6.py failed and the run is over.
C3_Witness ==
    /\ script = "ipv6" /\ pc = "exited" /\ exitStatus = 1
    /\ Len(Tried) = Len(CONNECTION_ATTEMPTS)
    /\ AllAttemptsFailed

\* C4: the schema applier commits only after the whole SQL script executed
\* without error; if the execution raises, the commit is never reached,
\* nothing of the script is persisted, no later step runs and the run exits
\* with status 1.
C4_CommitAfterScript ==
    /\ \A k \in Taken({"commit_file"}) :
          \E j \in Succeeded({"exec_file"}) : j < k
    /\ Succeeded({"commit_file"}) = {} => committed = startDb
    /\ Failed({"exec_file"}) # {} =>
          /\ pc = "exited" /\ exitStatus = 1
          /\ Failed({"exec_file"}) = {Len(log)}
          /\ Taken(CommitSteps) = {}
          /\ committed = startDb
          /\ txn = startDb

\* The execution of the SQL script raised on a database without tables.
C4_Witness ==
    /\ Failed({"exec_file"}) # {}
    /\ pc = "exited" /\ exitStatus = 1
    /\ ~committed.tables

\* C5: if the SQL file is missing, the run ends with exit status 1 after the
\* connection was opened and before any SQL statement is executed or
\* committed; the database is as it was before the run.
C5_MissingFile ==
    Failed({"read_file"}) # {} =>
       /\ pc = "exited" /\ exitStatus = 1
       /\ Failed({"read_file"}) = {Len(log)}
       /\ \E k \in DOMAIN Tried : Tried[k].ok
       /\ Taken(StatementSteps \cup CommitSteps) = {}
       /\ committed = startDb
       /\ txn = startDb

\* The file was missing in a run of setup-with-ipv6.py that had connected.
C5_Witness ==
    /\ script = "ipv6"
    /\ Failed({"read_file"}) # {}
    /\ pc = "exited" /\ exitStatus = 1
    /\ \E k \in DOMAIN Tried : Tried[k].ok

\* C6: every run terminates and every error is terminal.  A run exits with
\* status 0 exactly when the connection, the file read and every database
\* statement succeeded; it exits with status 1 on the first connection, file
\* or database error, after which no statement is executed; no step is
\* retried.  (Termination: a run is never stuck and takes a bounded number
\* of steps.)
C6_ErrorsTerminal ==
    /\ pc = "exited" =>
          /\ exitStatus \in {0, 1}
          /\ exitStatus = 0 <=> Errors = {}
          /\ exitStatus = 0 =>
                /\ \E k \in DOMAIN Tried : Tried[k].ok
                /\ \A p \in DOMAIN Order(script) :
                      Order(script)[p] # "upsert"
                         => Succeeded({Order(script)[p]}) # {}
                /\ script = "db" => Succeeded({"upsert"}) # {}
    /\ Errors # {} =>
          /\ pc = "exited" /\ exitStatus = 1
          /\ Errors = {Len(log)}
    /\ \A j, k \in DOMAIN log :
          (j < k /\ log[j].step = log[k].step) =>
             /\ log[j].step = "connect_loop"
             /\ log[j].cfg # log[k].cfg
    /\ Running =>
          /\ ENABLED RunStep
          /\ Len(log) < Len(Order(script)) + Len(CONNECTION_ATTEMPTS)
          /\ exitStatus = -1

\* A run of setup-database.py that failed at the audit insert, after six
\* statements and a commit.
C6_Witness ==
    /\ script = "db" /\ pc = "exited" /\ exitStatus = 1
    /\ Failed({"insert_audit"}) = {Len(log)}
    /\ Succeeded({"upsert"}) # {}

\* C7: the reporter steps have no effect on the database: the table listing
\* of both scripts and every statement after the final commit are read-only,
\* so the committed state at process exit is the state of the last commit.
C7_ReporterReadOnly ==
    /\ [][ReporterStepReadOnly]_vars
    /\ [](pc = "exited" => committed = lastCommit)

\* A run of setup-database.py ended after its reporter steps, with the admin
\* row it committed.
C7_Witness ==
    /\ script = "db" /\ pc = "exited" /\ exitStatus = 0
    /\ Succeeded({"statistics"}) # {}
    /\ committed # startDb
    /\ committed = lastCommit

\* C8: at every point of a run at most one database connection is open: a
\* failed attempt of the fallback loop leaves none open before the next
\* configuration is tried, and none is opened after a success.
C8_OneConnection ==
    /\ openConns \in {0, 1}
    /\ openConns = 1 <=> conn # None
    /\ (script = "ipv6" /\ pc = "connect_loop") => openConns = 0
    /\ Cardinality({k \in DOMAIN Tried : Tried[k].ok}) <= 1
    /\ ~Running => openConns = 0

\* The second configuration connected after the first failed.
C8_Witness ==
    /\ script = "ipv6" /\ pc = "check_conn"
    /\ Len(Tried) = 2 /\ Tried[2].ok
    /\ openConns = 1

\* C9: the audit row of a run references the user row of the admin email:
\* the update keeps the existing row's id and the audit row carries it, the
\* insert's generated id otherwise; every audit row the script wrote has the
\* id of the single admin row as user_id and entity_id.
C9_AuditReferencesAdmin ==
    /\ \A db \in {committed, txn} :
          \A k \in ScriptAudit(db) :
             /\ db.audit[k].entity_id = db.audit[k].user_id
             /\ Cardinality(AdminRows(db)) = 1
             /\ \A u \in AdminRows(db) : u.id = db.audit[k].user_id
    /\ OldAdmin \in initDb.users =>
          {u.id : u \in AdminRows(committed)} = {OldAdmin.id}
    /\ (script = "db" /\ pc \in {"insert_audit", "commit_admin"}) =>
          /\ Found(existing) => user_id = existing
          /\ \A u \in AdminRows(txn) : u.id = user_id

\* The admin row existed before the first run; a run updated it and
\* committed an audit row that carries its id.
C9_Witness ==
    /\ OldAdmin \in initDb.users
    /\ ScriptAudit(committed) # {}
    /\ \A k \in ScriptAudit(committed) : committed.audit[k].user_id = OldAdmin.id
    /\ \E u \in AdminRows(committed) : u.name = ADMIN_NAME /\ u.id = OldAdmin.id

\* C10: in setup-database.py the user upsert and the audit insert are made
\* durable together by the one commit that follows them.  Whatever the end
\* of a run, its committed effect is nothing, the schema only, or the schema
\* with both the user row change and one audit row; a run that fails between
\* the upsert and the second commit leaves users and audit_log as they were.
C10_AtomicUpsertAndAudit ==
    script = "db" =>
       LET userChange == committed.users # startDb.users
           auditChange == committed.audit # startDb.audit
       IN  /\ userChange <=> auditChange
           /\ auditChange <=> Succeeded({"commit_admin"}) # {}
           /\ \/ committed = startDb
              \/ committed = ExecuteScript(startDb)
              \/ /\ committed.tables
                 /\ Cardinality(ChangedIds(startDb, committed)) = 1
                 /\ Len(committed.audit) = Len(startDb.audit) + 1
                 /\ SubSeq(committed.audit, 1, Len(startDb.audit)) = startDb.audit
                 /\ committed.audit[Len(committed.audit)].action = "password_created"

\* The audit insert raised after the upsert had succeeded: neither is there.
C10_Witness ==
    /\ script = "db" /\ pc = "exited" /\ exitStatus = 1
    /\ Succeeded({"upsert"}) # {}
    /\ Failed({"insert_audit"}) # {}
    /\ committed.users = startDb.users
    /\ committed.audit = startDb.audit

====
